---- MODULE Spec2Model ----
(***************************************************************************)
(* Model of the SpiFlash driver for the 25LQ080 serial flash                *)
(* (src/spiflash.cpp, header src/unnamed/part_000).                         *)
(*                                                                         *)
(* The driver is a sequential program.  Each member function is an          *)
(* operator that yields the sequence of primitive steps its body performs   *)
(* (chip-select writes, SPI transfers, delays, assignments to the three     *)
(* file-scope statics); a public call loads that sequence into `todo` and   *)
(* one action per primitive executes its head.  The DMA completion          *)
(* interrupt pushes SpiFlash::_completion in front of `todo`.               *)
(* The flash chip is the environment: it answers transfers while its        *)
(* chip-select is LOW and executes a command when chip-select rises.        *)
(***************************************************************************)
EXTENDS Integers, Sequences, FiniteSets, TLC

VARIABLES
    sharedBus,      \* SpiFlash::sharedBus (build configuration)
    spi,            \* SpiFlash::spi: the bus object each instance was constructed with
    begun,          \* devices on which begin() has been called
    cs,             \* level of each device's chip-select pin
    chip,           \* the flash chip behind each chip-select
    todo,           \* primitive steps the main thread still has to execute
    isr,            \* primitive steps of the interrupt handler in progress
    call,           \* the public call in progress, or the last one that returned
    nCalls,         \* public calls made so far (begin() apart)
    written,        \* what the last writeDataSync / writePageSync that returned had written
    rxBuf,          \* the local rxBuf of jedecIdRead / readStatus
    buf,            \* the caller's buffer of the current call
    ret,            \* the value the last call returned
    log,            \* bus events since the current public call started
    subs,           \* single-page sub-operations the current call has entered
    busy,           \* consecutive status polls of each instance that were answered busy
    slot,           \* _spiFlash, _callback, _callbackParam
    dma,            \* SPI transfers started with a completion callback, oldest first
    ops,            \* asynchronous operations issued so far
    fired           \* user callbacks invoked so far

vars == <<sharedBus, spi, begun, cs, chip, todo, isr, call, nCalls, written, rxBuf, buf, ret,
          log, subs, busy, slot, dma, ops, fired>>

----------------------------------------------------------------------------
(* Program constants *)

PAGE_SIZE == 256
SECTOR_SIZE == 4096
NUM_SECTORS == 256
BLOCK_SIZE == 65536
NUM_BLOCKS == 16
STATUS_WIP == 1
STATUS_WEL == 2
STATUS_SRWD == 128

\* opcodes, as the source writes them
RDID == 159         \* 0x9f
RDSR == 5           \* 0x05
WRSR == 1           \* 0x01
READ == 3           \* 0x03
PAGE_PROG == 2      \* 0x02
SECTOR_ER == 215    \* 0xD7
BLOCK_ER == 216     \* 0xD8
CHIP_ER == 199      \* 0xC7
WREN == 6           \* 0x06

\* isValidChip's expected identification
MANUFACTURER_ID == 157  \* 0x9d
DEVICE_ID1 == 19        \* 0x13
DEVICE_ID2 == 68        \* 0x44

NULL == 0
LOW == 0
HIGH == 1
\* uint8_t is 8 bits wide.  size_t is 32 bits wide on the target; the model
\* draws addresses and lengths below 2^31, where no size_t sum wraps.
BYTE_MOD == 256

\* a byte of a local transmit buffer the code never assigned
Uninit == 0 - 1
\* a buffer position nothing has been stored in yet
Unset == 0 - 2

----------------------------------------------------------------------------
(* Bounds of the model *)

\* busy polls the chip may answer before its program / erase cycle ends
MaxPolls == 1
\* public calls in one behaviour
MaxCalls == 2
\* asynchronous operations in one behaviour
MaxAsync == 2

Dev == {1, 2}

\* the bus objects: SPI is the global every transfer is written against
SPI == "SPI"
SPI1 == "SPI1"
NoBus == "none"
\* values the bus may carry where the protocol defines none
JunkBytes == {0, 255}

----------------------------------------------------------------------------
(* Arithmetic helpers *)

Min(a, b) == IF a < b THEN a ELSE b

RECURSIVE And8(_, _, _)
\* bitwise AND of the low `bits` bits of a and b
And8(a, b, bits) ==
    IF bits = 0 THEN 0
    ELSE (a % 2) * (b % 2) + 2 * And8(a \div 2, b \div 2, bits - 1)

BitAnd(a, b) == IF a = 255 THEN b ELSE IF b = 255 THEN a ELSE And8(a, b, 8)

\* a sequence of n copies of x
Fill(n, x) == [i \in 1..n |-> x]

----------------------------------------------------------------------------
(* The flash chip, as the header's comments and the driver's protocol       *)
(* describe it: commands are framed by chip-select, a page program wraps    *)
(* inside its 256-byte page, a read is linear, a program / erase / status   *)
(* write needs the write-enable latch and runs with write-in-progress set,  *)
(* during which only the status register can be read.                       *)

Capacity == NUM_SECTORS * SECTOR_SIZE

ValidId == <<MANUFACTURER_ID, DEVICE_ID1, DEVICE_ID2>>

NewChip(id) ==
    [id |-> id, mem |-> <<>>, sr |-> 0, wip |-> FALSE, wel |-> FALSE,
     acc |-> FALSE, hdr |-> <<>>, cnt |-> 0, data |-> <<>>]

\* the byte stored at address a; an address never programmed reads erased
MemAt(mem, a) == IF a \in DOMAIN mem THEN mem[a] ELSE 255

ChipStatus(c) ==
    c.sr + (IF c.wel THEN STATUS_WEL ELSE 0) + (IF c.wip THEN STATUS_WIP ELSE 0)

ChipAddr(c) == (c.hdr[2] * 65536 + c.hdr[3] * 256 + c.hdr[4]) % Capacity

\* chip-select falls: a new command frame starts
ChipSelect(c) == [c EXCEPT !.acc = FALSE, !.hdr = <<>>, !.cnt = 0, !.data = <<>>]

\* the chip clocks in the n bytes of one transfer (tx = <<>>: the master sends nothing defined)
ChipClock(c, tx, n) ==
    LET in == IF tx = <<>> THEN Fill(n, Uninit) ELSE tx
        all == c.hdr \o in
        hdr == SubSeq(all, 1, Min(4, Len(all)))
        rest == SubSeq(all, 5, Len(all))
    IN  [c EXCEPT !.acc = IF c.cnt = 0 /\ n > 0
                          THEN (~c.wip \/ in[1] = RDSR) ELSE c.acc,
                  !.hdr = hdr,
                  !.cnt = c.cnt + n,
                  !.data = IF Len(hdr) > 0 /\ hdr[1] = PAGE_PROG
                           THEN c.data \o rest ELSE <<>>]

\* the n bytes the chip drives during that transfer; j where it drives nothing defined
ChipOut(c, tx, n, j) ==
    LET after == ChipClock(c, tx, n)
        opc == IF Len(after.hdr) > 0 THEN after.hdr[1] ELSE Uninit
        byteAt(p) ==
            IF ~after.acc THEN j
            ELSE IF opc = RDID /\ p \in 2..4 THEN c.id[p - 1]
            ELSE IF opc = RDSR /\ p >= 2 THEN ChipStatus(c)
            ELSE IF opc = READ /\ p >= 5
                 THEN MemAt(c.mem, (ChipAddr(after) + (p - 5)) % Capacity)
            ELSE j
    IN  [k \in 1..n |-> byteAt(c.cnt + k)]

\* page program: the payload fills the page latch, wrapping inside the page,
\* and the latch is programmed into the array (programming only clears bits)
Program(mem, a, data) ==
    LET page == a - (a % PAGE_SIZE)
        n == Len(data)
        touched == {page + ((a + k - 1) % PAGE_SIZE) : k \in 1..n}
        last(t) == LET o == (t - a) % PAGE_SIZE
                   IN  o + 1 + PAGE_SIZE * ((n - o - 1) \div PAGE_SIZE)
        val(t) == IF t \in touched
                  THEN BitAnd(MemAt(mem, t), data[last(t)])
                  ELSE mem[t]
        keep == {t \in (DOMAIN mem) \cup touched : val(t) # 255}
    IN  [t \in keep |-> val(t)]

\* erase of the size-aligned region containing a
Erase(mem, a, size) ==
    LET start == a - (a % size)
        keep == {t \in DOMAIN mem : t < start \/ t >= start + size}
    IN  [t \in keep |-> mem[t]]

\* chip-select rises: the framed command executes
ChipDeselect(c) ==
    LET opc == IF Len(c.hdr) > 0 THEN c.hdr[1] ELSE Uninit
    IN  IF ~c.acc THEN c
        ELSE IF opc = WREN /\ c.cnt = 1 THEN [c EXCEPT !.wel = TRUE]
        ELSE IF ~c.wel THEN c
        ELSE IF opc = PAGE_PROG /\ c.cnt > 4
             THEN [c EXCEPT !.mem = Program(c.mem, ChipAddr(c), c.data), !.wip = TRUE]
        ELSE IF opc = SECTOR_ER /\ c.cnt = 4
             THEN [c EXCEPT !.mem = Erase(c.mem, ChipAddr(c), SECTOR_SIZE), !.wip = TRUE]
        ELSE IF opc = BLOCK_ER /\ c.cnt = 4
             THEN [c EXCEPT !.mem = Erase(c.mem, ChipAddr(c), BLOCK_SIZE), !.wip = TRUE]
        ELSE IF opc = CHIP_ER /\ c.cnt = 1
             THEN [c EXCEPT !.mem = <<>>, !.wip = TRUE]
        ELSE IF opc = WRSR /\ c.cnt = 2
             THEN [c EXCEPT !.sr = (c.hdr[2] \div 4) * 4, !.wip = TRUE]
        ELSE c

\* the internal program / erase / status-write cycle ends
ChipDone(c) == [c EXCEPT !.wip = FALSE, !.wel = FALSE]

----------------------------------------------------------------------------
(* Primitive steps.  Every step is a record of the same shape:              *)
(*   k   what the step does          d   the SpiFlash instance (this)       *)
(*   tx  bytes sent (<<>> = NULL)    n   length of the transfer / level     *)
(*   rx  where received bytes go     off offset into the caller's buffer    *)
(*   cb  completion / user callback  p   callback parameter / operation     *)

Prim(k, d) ==
    [k |-> k, d |-> d, tx |-> <<>>, n |-> 0, rx |-> "null", off |-> 0, cb |-> NULL, p |-> NULL]

\* digitalWrite(cs, level)
DigitalWrite(d, level) == [Prim("digitalWrite", d) EXCEPT !.n = level]

\* SPI.transfer(tx, rx, n, NULL): blocks until the n bytes are exchanged
Transfer(d, tx, n, rx, off) ==
    [Prim("transfer", d) EXCEPT !.tx = tx, !.n = n, !.rx = rx, !.off = off]

\* SPI.transfer(tx, rx, n, _completion): returns at once, _completion runs when done
\* (p tags the transfer with the asynchronous operation it belongs to)
TransferAsync(d, tx, n, rx, off, p) ==
    [Prim("transferAsync", d) EXCEPT !.tx = tx, !.n = n, !.rx = rx, !.off = off, !.p = p]

\* marks the entry of a single-page operation (addr in tx, count in n, buffer offset in off)
Enter(d, name, addr, off, count) ==
    [Prim("enter", d) EXCEPT !.rx = name, !.tx = <<addr>>, !.n = count, !.off = off]

----------------------------------------------------------------------------
(* The driver's member functions, each as the steps its body performs.      *)
(* A `completion` argument is NULL or stands for _completion; the model     *)
(* passes the operation's own tag there so that a transfer in flight can be *)
(* traced back to the operation that started it.                            *)

setSpiSettings(d) == <<Prim("setSpiSettings", d)>>

begin(d) ==
    <<Prim("spiBegin", d)>> \o (IF ~sharedBus THEN setSpiSettings(d) ELSE <<>>)

\* mutant: the test of sharedBus is inverted
beginTransaction_Inverted(d) ==
    (IF ~sharedBus THEN setSpiSettings(d) \o <<Prim("delay", d)>> ELSE <<>>)
    \o <<DigitalWrite(d, LOW)>>

beginTransaction(d) ==
    (IF sharedBus THEN setSpiSettings(d) \o <<Prim("delay", d)>> ELSE <<>>)
    \o <<DigitalWrite(d, LOW)>>

endTransaction(d) == <<DigitalWrite(d, HIGH)>>

jedecIdRead(d) ==
    beginTransaction(d)
    \o <<Transfer(d, <<RDID, Uninit, Uninit, Uninit>>, 4, "rxBuf", 0)>>
    \o endTransaction(d)
    \o <<Prim("outId", d)>>

isValidChip(d) == jedecIdRead(d) \o <<Prim("retValid", d)>>

readStatus(d) ==
    beginTransaction(d)
    \o <<Transfer(d, <<RDSR, Uninit>>, 2, "rxBuf", 0)>>
    \o endTransaction(d)
    \o <<Prim("retStatus", d)>>

isWriteInProgress(d) == readStatus(d) \o <<Prim("retWip", d)>>

\* mutant: sleeps before the first look at the status register
waitForWriteComplete_DelayFirst(d) ==
    <<Prim("delay", d)>> \o isWriteInProgress(d) \o <<Prim("while", d)>>

\* while(isWriteInProgress()) { delay(1); }  -- "while" tests the value and loops
waitForWriteComplete(d) == isWriteInProgress(d) \o <<Prim("while", d)>>

writeStatus(d, status) ==
    waitForWriteComplete(d)
    \o beginTransaction(d)
    \o <<Transfer(d, <<WRSR, status>>, 2, "null", 0)>>
    \o endTransaction(d)

\* mutant: the address bytes go out low byte first
setInstWithAddr_LittleEndian(inst, addr) ==
    <<inst % BYTE_MOD,
      addr % BYTE_MOD,
      (addr \div 256) % BYTE_MOD,
      (addr \div 65536) % BYTE_MOD>>

\* buf[0] = inst; buf[1] = (uint8_t)(addr >> 16); buf[2] = (uint8_t)(addr >> 8);
\* buf[3] = (uint8_t) addr;
setInstWithAddr(inst, addr) ==
    <<inst % BYTE_MOD,
      (addr \div 65536) % BYTE_MOD,
      (addr \div 256) % BYTE_MOD,
      addr % BYTE_MOD>>

readPageCommon(d, addr, off, bufLen, completion) ==
    beginTransaction(d)
    \o <<Transfer(d, setInstWithAddr(READ, addr), 4, "null", 0)>>
    \o <<IF completion = NULL
         THEN Transfer(d, <<>>, bufLen, "buf", off)
         ELSE TransferAsync(d, <<>>, bufLen, "buf", off, completion)>>

\* mutant: the synchronous read clears the callback record when it is done
readPageSync_ClearsCallback(d, addr, off, bufLen) ==
    readPageCommon(d, addr, off, bufLen, NULL) \o endTransaction(d)
    \o <<Prim("clearCallback", NULL)>>

\* mutant: the read never releases chip-select
readPageSync_NoRelease(d, addr, off, bufLen) ==
    readPageCommon(d, addr, off, bufLen, NULL)

readPageSync(d, addr, off, bufLen) ==
    readPageCommon(d, addr, off, bufLen, NULL) \o endTransaction(d)

RECURSIVE readDataSync_FullPages(_, _, _, _)
\* mutant: the count ignores where in the page addr lies
readDataSync_FullPages(d, addr, off, bufLen) ==
    IF bufLen > 0
    THEN LET count == IF PAGE_SIZE > bufLen THEN bufLen ELSE PAGE_SIZE
         IN  <<Enter(d, "readPageSync", addr, off, count)>>
             \o readPageSync(d, addr, off, count)
             \o readDataSync_FullPages(d, addr + count, off + count, bufLen - count)
    ELSE <<>>

RECURSIVE readDataSync(_, _, _, _)
\* off is curBuf - buf
readDataSync(d, addr, off, bufLen) ==
    IF bufLen > 0
    THEN LET pageOffset == addr % PAGE_SIZE
             pageStart == addr - pageOffset
             full == (pageStart + PAGE_SIZE) - addr
             count == IF full > bufLen THEN bufLen ELSE full
         IN  <<Enter(d, "readPageSync", addr, off, count)>>
             \o readPageSync(d, addr, off, count)
             \o readDataSync(d, addr + count, off + count, bufLen - count)
    ELSE <<>>

\* _spiFlash = this; _callback = callback; _callbackParam = param;
SetSlot(d, callback, param) ==
    <<[Prim("setSpiFlash", d) EXCEPT !.p = param],
      [Prim("setCallback", d) EXCEPT !.cb = callback],
      [Prim("setCallbackParam", d) EXCEPT !.p = param]>>

readPageAsync(d, addr, off, bufLen, callback, param) ==
    SetSlot(d, callback, param) \o readPageCommon(d, addr, off, bufLen, param)

writeEnable(d) ==
    beginTransaction(d)
    \o <<Transfer(d, <<WREN>>, 1, "null", 0)>>
    \o endTransaction(d)
    \o <<Prim("delayMicroseconds", d)>>

\* data is the caller's whole buffer, off the offset of this page's bytes in it
writePageCommon(d, addr, data, off, bufLen, completion) ==
    writeEnable(d)
    \o beginTransaction(d)
    \o <<Transfer(d, setInstWithAddr(PAGE_PROG, addr), 4, "null", 0)>>
    \o <<IF completion = NULL
         THEN Transfer(d, SubSeq(data, off + 1, off + bufLen), bufLen, "null", 0)
         ELSE TransferAsync(d, SubSeq(data, off + 1, off + bufLen), bufLen, "null", 0,
                            completion)>>

\* mutant: the write stops at the end of the page
writePageSync_Truncate(d, addr, data, off, bufLen) ==
    waitForWriteComplete(d)
    \o writePageCommon(d, addr, data, off, Min(bufLen, PAGE_SIZE - (addr % PAGE_SIZE)), NULL)
    \o endTransaction(d)
    \o waitForWriteComplete(d)

\* mutant: returns without waiting for the program cycle to end
writePageSync_NoWait(d, addr, data, off, bufLen) ==
    waitForWriteComplete(d)
    \o writePageCommon(d, addr, data, off, bufLen, NULL)
    \o endTransaction(d)

writePageSync(d, addr, data, off, bufLen) ==
    waitForWriteComplete(d)
    \o writePageCommon(d, addr, data, off, bufLen, NULL)
    \o endTransaction(d)
    \o waitForWriteComplete(d)

\* mutant: the whole buffer goes into one page program
writeDataSync_OnePage(d, addr, data, off, bufLen) ==
    IF bufLen > 0
    THEN <<Enter(d, "writePageSync", addr, off, Min(bufLen, PAGE_SIZE))>>
         \o writePageSync(d, addr, data, off, bufLen)
    ELSE <<>>

RECURSIVE writeDataSync(_, _, _, _, _)
writeDataSync(d, addr, data, off, bufLen) ==
    IF bufLen > 0
    THEN LET pageOffset == addr % PAGE_SIZE
             pageStart == addr - pageOffset
             full == (pageStart + PAGE_SIZE) - addr
             count == IF full > bufLen THEN bufLen ELSE full
         IN  <<Enter(d, "writePageSync", addr, off, count)>>
             \o writePageSync(d, addr, data, off, count)
             \o writeDataSync(d, addr + count, data, off + count, bufLen - count)
    ELSE <<>>

\* mutant: the operation is recorded before the wait
writePageAsync_SlotFirst(d, addr, data, off, bufLen, callback, param) ==
    SetSlot(d, callback, param)
    \o waitForWriteComplete(d)
    \o writePageCommon(d, addr, data, off, bufLen, param)

writePageAsync(d, addr, data, off, bufLen, callback, param) ==
    waitForWriteComplete(d)
    \o SetSlot(d, callback, param)
    \o writePageCommon(d, addr, data, off, bufLen, param)

sectorErase(d, addr) ==
    waitForWriteComplete(d)
    \o writeEnable(d)
    \o beginTransaction(d)
    \o <<Transfer(d, setInstWithAddr(SECTOR_ER, addr), 4, "null", 0)>>
    \o endTransaction(d)
    \o waitForWriteComplete(d)

\* mutant: the erase goes out before the write-enable
blockErase_EraseFirst(d, addr) ==
    waitForWriteComplete(d)
    \o beginTransaction(d)
    \o <<Transfer(d, setInstWithAddr(BLOCK_ER, addr), 4, "null", 0)>>
    \o endTransaction(d)
    \o writeEnable(d)
    \o waitForWriteComplete(d)

blockErase(d, addr) ==
    waitForWriteComplete(d)
    \o writeEnable(d)
    \o beginTransaction(d)
    \o <<Transfer(d, setInstWithAddr(BLOCK_ER, addr), 4, "null", 0)>>
    \o endTransaction(d)
    \o waitForWriteComplete(d)

chipErase(d) ==
    waitForWriteComplete(d)
    \o writeEnable(d)
    \o beginTransaction(d)
    \o <<Transfer(d, <<CHIP_ER>>, 1, "null", 0)>>
    \o endTransaction(d)
    \o waitForWriteComplete(d)

\* _spiFlash->endTransaction(); _spiFlash = NULL; if (_callback != NULL) { ... }
completion ==
    <<Prim("endSlot", NULL), Prim("clearSpiFlash", NULL), Prim("ifCallback", NULL)>>

\* _callback = NULL; _callbackParam = NULL;   (after the user callback returned)
clearCallback == <<Prim("clearCallback", NULL)>>

----------------------------------------------------------------------------
(* Execution of the primitive steps.  The interrupt handler, when one is    *)
(* in progress, runs to its end before the main thread continues.           *)

Running == isr # <<>> \/ todo # <<>>

Cur == IF isr # <<>> THEN Head(isr) ELSE Head(todo)

\* the current step is done; `front` is what it put in front of the rest
Continue(front) ==
    IF isr # <<>>
    THEN isr' = front \o Tail(isr) /\ todo' = todo
    ELSE todo' = front \o Tail(todo) /\ isr' = isr

\* a bus event: v the bytes sent (or the level written), n the length (or the level
\* before), lo the chip-selects at LOW, r the bytes the chip answered into a local
\* buffer once the opcode was sent
Ev(e, d, v, n, lo, r) ==
    [e |-> e, d |-> d, v |-> v, n |-> n, lo |-> lo, r |-> r, bus |-> NoBus]

\* the event, made through bus object b
Via(b, ev) == [ev EXCEPT !.bus = b]

\* the chips wired to bus b
Attached(b) == {x \in Dev : spi[x] = b}

Selected == {x \in Dev : cs[x] = LOW}

\* digitalWrite on device d's chip-select pin, seen by the chip behind it
PinWrite(d, level) ==
    /\ cs' = [cs EXCEPT ![d] = level]
    /\ chip' = [chip EXCEPT ![d] =
                  IF cs[d] = HIGH /\ level = LOW THEN ChipSelect(@)
                  ELSE IF cs[d] = LOW /\ level = HIGH THEN ChipDeselect(@)
                  ELSE @]
    /\ log' = Append(log, Ev("cs", d, <<level>>, cs[d], {}, <<>>))

\* the bytes the master reads during a transfer: the selected chip's, when exactly one is
BusIn(tx, n, j) ==
    IF Cardinality(Selected \cap Attached(SPI)) = 1
    THEN LET x == CHOOSE x \in Selected \cap Attached(SPI) : TRUE
         IN  ChipOut(chip[x], tx, n, j)
    ELSE Fill(n, j)

\* the selected chips after clocking a transfer
BusOut(tx, n) ==
    [x \in Dev |-> IF x \in Selected \cap Attached(SPI)
                    THEN ChipClock(chip[x], tx, n) ELSE chip[x]]

\* a transfer that polls the status register
IsPoll(tx) == tx # <<>> /\ tx[1] = RDSR

\* whether the answer rx to a poll has write-in-progress set
SaysBusy(rx) == BitAnd(rx[2], STATUS_WIP) # 0

\* buffer b with the bytes rx stored from offset off on
Store(b, off, rx) ==
    [i \in 1..Len(b) |-> IF i > off /\ i <= off + Len(rx) THEN rx[i - off] ELSE b[i]]

StepDigitalWrite ==
    /\ Running /\ Cur.k = "digitalWrite"
    /\ PinWrite(Cur.d, Cur.n)
    /\ Continue(<<>>)
    /\ UNCHANGED <<sharedBus, spi, begun, call, nCalls, written, rxBuf, buf, ret, subs, busy,
                   slot, dma, ops, fired>>

StepTransfer ==
    /\ Running /\ Cur.k = "transfer"
    /\ \E j \in JunkBytes :
         LET rx == BusIn(Cur.tx, Cur.n, j)
         IN  /\ rxBuf' = IF Cur.rx = "rxBuf" THEN rx ELSE rxBuf
             /\ buf' = IF Cur.rx = "buf" THEN Store(buf, Cur.off, rx) ELSE buf
             \* what keeps the poll answering busy ends within MaxPolls polls
             /\ (IsPoll(Cur.tx) /\ SaysBusy(rx)) => busy[Cur.d] < MaxPolls
             /\ busy' = IF ~IsPoll(Cur.tx) THEN busy
                        ELSE IF SaysBusy(rx) THEN [busy EXCEPT ![Cur.d] = @ + 1]
                        ELSE [busy EXCEPT ![Cur.d] = 0]
             /\ log' = Append(log, Via(SPI, Ev("transfer", Cur.d, Cur.tx, Cur.n, Selected,
                                      IF Cur.rx = "rxBuf" THEN Tail(rx) ELSE <<>>)))
    /\ chip' = BusOut(Cur.tx, Cur.n)
    /\ Continue(<<>>)
    /\ UNCHANGED <<sharedBus, spi, begun, cs, call, nCalls, written, ret, subs, slot, dma, ops,
                   fired>>

\* delay(1) and delayMicroseconds(3)
StepDelay ==
    /\ Running /\ Cur.k \in {"delay", "delayMicroseconds"}
    /\ log' = Append(log, Ev(Cur.k, Cur.d, <<>>, 0, {}, <<>>))
    /\ Continue(<<>>)
    /\ UNCHANGED <<sharedBus, spi, begun, cs, chip, call, nCalls, written, rxBuf, buf, ret, subs,
                   busy, slot, dma, ops, fired>>

\* spi.begin(cs): the pin becomes an output at its inactive level
StepSpiBegin ==
    /\ Running /\ Cur.k = "spiBegin"
    /\ begun' = begun \cup {Cur.d}
    /\ cs' = [cs EXCEPT ![Cur.d] = HIGH]
    /\ log' = Append(log, Via(spi[Cur.d], Ev("spiBegin", Cur.d, <<>>, 0, {}, <<>>)))
    /\ Continue(<<>>)
    /\ UNCHANGED <<sharedBus, spi, chip, call, nCalls, written, rxBuf, buf, ret, subs, busy,
                   slot, dma, ops, fired>>

\* spi.setBitOrder(MSBFIRST); spi.setClockSpeed(30, MHZ); spi.setDataMode(SPI_MODE0)
StepSetSpiSettings ==
    /\ Running /\ Cur.k = "setSpiSettings"
    /\ log' = Append(log, Via(spi[Cur.d], Ev("setSpiSettings", Cur.d, <<>>, 0, {}, <<>>)))
    /\ Continue(<<>>)
    /\ UNCHANGED <<sharedBus, spi, begun, cs, chip, call, nCalls, written, rxBuf, buf, ret, subs,
                   busy, slot, dma, ops, fired>>

\* manufacturerId = rxBuf[1]; deviceId1 = rxBuf[2]; deviceId2 = rxBuf[3];  (0-based)
StepOutId ==
    /\ Running /\ Cur.k = "outId"
    /\ ret' = [ret EXCEPT !.id = <<rxBuf[2], rxBuf[3], rxBuf[4]>>]
    /\ Continue(<<>>)
    /\ UNCHANGED <<sharedBus, spi, begun, cs, chip, call, nCalls, written, rxBuf, buf, log, subs,
                   busy, slot, dma, ops, fired>>

\* mutant: the second device id byte is not compared
StepRetValid_TwoBytes ==
    /\ Running /\ Cur.k = "retValid"
    /\ ret' = [ret EXCEPT !.flag = (ret.id[1] = MANUFACTURER_ID /\ ret.id[2] = DEVICE_ID1)]
    /\ Continue(<<>>)
    /\ UNCHANGED <<sharedBus, spi, begun, cs, chip, call, nCalls, written, rxBuf, buf, log, subs,
                   busy, slot, dma, ops, fired>>

\* return manufacturerId == 0x9d && deviceId1 == 0x13 && deviceId2 == 0x44;
StepRetValid ==
    /\ Running /\ Cur.k = "retValid"
    /\ ret' = [ret EXCEPT !.flag = (ret.id[1] = MANUFACTURER_ID /\ ret.id[2] = DEVICE_ID1
                                    /\ ret.id[3] = DEVICE_ID2)]
    /\ Continue(<<>>)
    /\ UNCHANGED <<sharedBus, spi, begun, cs, chip, call, nCalls, written, rxBuf, buf, log, subs,
                   busy, slot, dma, ops, fired>>

\* return rxBuf[1];  (0-based)
StepRetStatus ==
    /\ Running /\ Cur.k = "retStatus"
    /\ ret' = [ret EXCEPT !.status = rxBuf[2]]
    /\ Continue(<<>>)
    /\ UNCHANGED <<sharedBus, spi, begun, cs, chip, call, nCalls, written, rxBuf, buf, log, subs,
                   busy, slot, dma, ops, fired>>

\* return (readStatus() & STATUS_WIP) != 0;
StepRetWip ==
    /\ Running /\ Cur.k = "retWip"
    /\ ret' = [ret EXCEPT !.flag = (BitAnd(ret.status, STATUS_WIP) # 0)]
    /\ Continue(<<>>)
    /\ UNCHANGED <<sharedBus, spi, begun, cs, chip, call, nCalls, written, rxBuf, buf, log, subs,
                   busy, slot, dma, ops, fired>>

\* mutant: the loop polls again without sleeping
StepWhile_NoDelay ==
    /\ Running /\ Cur.k = "while"
    /\ IF ret.flag
       THEN Continue(waitForWriteComplete(Cur.d))
       ELSE Continue(<<>>)
    /\ UNCHANGED <<sharedBus, spi, begun, cs, chip, call, nCalls, written, rxBuf, buf, ret, log,
                   subs, busy, slot, dma, ops, fired>>

\* the test of waitForWriteComplete's loop: busy -> delay(1) and poll again
StepWhile ==
    /\ Running /\ Cur.k = "while"
    /\ IF ret.flag
       THEN Continue(<<Prim("delay", Cur.d)>> \o waitForWriteComplete(Cur.d))
       ELSE Continue(<<>>)
    /\ UNCHANGED <<sharedBus, spi, begun, cs, chip, call, nCalls, written, rxBuf, buf, ret, log,
                   subs, busy, slot, dma, ops, fired>>

\* readDataSync / writeDataSync call a single-page operation
StepEnter ==
    /\ Running /\ Cur.k = "enter"
    /\ subs' = Append(subs, <<Cur.tx[1], Cur.off, Cur.n>>)
    /\ Continue(<<>>)
    /\ UNCHANGED <<sharedBus, spi, begun, cs, chip, call, nCalls, written, rxBuf, buf, ret, log,
                   busy, slot, dma, ops, fired>>

\* the chip's internal cycle ends
ChipFinish ==
    \E d \in Dev :
        /\ chip[d].wip
        /\ chip' = [chip EXCEPT ![d] = ChipDone(@)]
        /\ UNCHANGED <<sharedBus, spi, begun, cs, todo, isr, call, nCalls, written, rxBuf, buf, ret,
                       log, subs, busy, slot, dma, ops, fired>>

----------------------------------------------------------------------------
(* The asynchronous path: the three statics, the DMA transfer in flight and *)
(* SpiFlash::_completion, which the SPI interrupt calls when it is done.    *)

StepSetSlot ==
    /\ Running /\ Cur.k \in {"setSpiFlash", "setCallback", "setCallbackParam"}
    /\ slot' = IF Cur.k = "setSpiFlash" THEN [slot EXCEPT !.dev = Cur.d]
               ELSE IF Cur.k = "setCallback" THEN [slot EXCEPT !.cb = Cur.cb]
               ELSE [slot EXCEPT !.p = Cur.p]
    /\ Continue(<<>>)
    /\ UNCHANGED <<sharedBus, spi, begun, cs, chip, call, nCalls, written, rxBuf, buf, ret, log,
                   subs, busy, dma, ops, fired>>

\* SPI.transfer(..., completion): the transfer is handed to the DMA engine
StepTransferAsync ==
    /\ Running /\ Cur.k = "transferAsync"
    /\ dma' = Append(dma, [tx |-> Cur.tx, n |-> Cur.n, rx |-> Cur.rx, off |-> Cur.off,
                           d |-> Cur.d, op |-> Cur.p])
    /\ Continue(<<>>)
    /\ UNCHANGED <<sharedBus, spi, begun, cs, chip, call, nCalls, written, rxBuf, buf, ret, log,
                   subs, busy, slot, ops, fired>>

\* the oldest DMA transfer ends: its bytes have been exchanged and the
\* interrupt enters _completion
DmaComplete ==
    /\ dma # <<>> /\ isr = <<>>
    /\ LET h == Head(dma)
       IN  /\ \E j \in JunkBytes :
                buf' = IF h.rx = "buf" /\ call.p = h.op
                       THEN Store(buf, h.off, BusIn(h.tx, h.n, j)) ELSE buf
           /\ chip' = BusOut(h.tx, h.n)
           /\ log' = Append(log, Via(SPI, Ev("transferAsync", h.d, h.tx, h.n, Selected, <<>>)))
           /\ ops' = [ops EXCEPT ![h.op].done = TRUE]
    /\ dma' = Tail(dma)
    /\ isr' = completion
    /\ UNCHANGED <<sharedBus, spi, begun, cs, todo, call, nCalls, written, rxBuf, ret, subs, busy,
                   slot, fired>>

\* _spiFlash->endTransaction(): through a null _spiFlash the pin number is read
\* from nowhere, and the write lands on either chip-select or on neither
StepEndSlot ==
    /\ Running /\ Cur.k = "endSlot"
    /\ IF slot.dev # NULL
       THEN PinWrite(slot.dev, HIGH)
       ELSE \/ \E x \in Dev : PinWrite(x, HIGH)
            \/ UNCHANGED <<cs, chip, log>>
    /\ Continue(<<>>)
    /\ UNCHANGED <<sharedBus, spi, begun, call, nCalls, written, rxBuf, buf, ret, subs, busy,
                   slot, dma, ops, fired>>

\* _spiFlash = NULL;
StepClearSpiFlash ==
    /\ Running /\ Cur.k = "clearSpiFlash"
    /\ slot' = [slot EXCEPT !.dev = NULL]
    /\ Continue(<<>>)
    /\ UNCHANGED <<sharedBus, spi, begun, cs, chip, call, nCalls, written, rxBuf, buf, ret, log,
                   subs, busy, dma, ops, fired>>

Invocation == [cb |-> slot.cb, p |-> slot.p, lo |-> Selected]

NewOp(d, cb) ==
    [d |-> d, cb |-> cb, p |-> Len(ops) + 1,
     clean |-> \A i \in 1..Len(ops) : ops[i].done, done |-> FALSE]

\* if (_callback != NULL) is false: nothing is called and nothing is cleared
StepNoCallback ==
    /\ Running /\ Cur.k = "ifCallback"
    /\ slot.cb = NULL
    /\ Continue(<<>>)
    /\ UNCHANGED <<sharedBus, spi, begun, cs, chip, call, nCalls, written, rxBuf, buf, ret, log,
                   subs, busy, slot, dma, ops, fired>>

\* _callback(_callbackParam), a user callback that only returns
StepCallbackReturns ==
    /\ Running /\ Cur.k = "ifCallback"
    /\ slot.cb # NULL
    /\ fired' = Append(fired, Invocation)
    /\ Continue(clearCallback)
    /\ UNCHANGED <<sharedBus, spi, begun, cs, chip, call, nCalls, written, rxBuf, buf, ret, log,
                   subs, busy, slot, dma, ops>>

\* _callback(_callbackParam), a user callback that issues the next asynchronous read
StepCallbackChains(d, addr, len, cb) ==
    /\ Running /\ Cur.k = "ifCallback"
    /\ slot.cb # NULL
    /\ Len(ops) < MaxAsync
    /\ d \in begun
    /\ fired' = Append(fired, Invocation)
    /\ ops' = Append(ops, NewOp(d, cb))
    /\ Continue(readPageAsync(d, addr, 0, len, cb, Len(ops) + 1) \o clearCallback)
    /\ UNCHANGED <<sharedBus, spi, begun, cs, chip, call, nCalls, written, rxBuf, buf, ret, log,
                   subs, busy, slot, dma>>

\* _callback = NULL; _callbackParam = NULL;
StepClearCallback ==
    /\ Running /\ Cur.k = "clearCallback"
    /\ slot' = [slot EXCEPT !.cb = NULL, !.p = NULL]
    /\ Continue(<<>>)
    /\ UNCHANGED <<sharedBus, spi, begun, cs, chip, call, nCalls, written, rxBuf, buf, ret, log,
                   subs, busy, dma, ops, fired>>

----------------------------------------------------------------------------
(* The public calls.  The caller makes one when the previous has returned.  *)

Idle == todo = <<>> /\ isr = <<>>

NoRet == [id |-> <<>>, status |-> 0, flag |-> FALSE]

NoWrite == [d |-> NULL, a |-> 0, data |-> <<>>]

\* what of a chip outlives a command frame
Persistent(c) == [mem |-> c.mem, sr |-> c.sr, wip |-> c.wip, wel |-> c.wel]

\* the chips, the chip-select pins and the statics as a call finds them, and whether
\* an asynchronous transfer is in flight
Pre ==
    [chip |-> [d \in Dev |-> Persistent(chip[d])], cs |-> cs, slot |-> slot,
     pending |-> dma # <<>>]

NoPre ==
    [chip |-> [d \in Dev |-> Persistent(NewChip(ValidId))], cs |-> [d \in Dev |-> HIGH],
     slot |-> [dev |-> NULL, cb |-> NULL, p |-> NULL], pending |-> FALSE]

Call(op, d, a, n, data) ==
    [op |-> op, d |-> d, a |-> a, n |-> n, data |-> data, p |-> NULL, fresh |-> FALSE,
     pre |-> NoPre]

NoCall == Call("none", NULL, 0, 0, <<>>)

Mutators ==
    {"writeDataSync", "writePageSync", "writePageAsync", "sectorErase", "blockErase",
     "chipErase"}

\* whether the n bytes from address a on are erased on device d's chip
Erased(d, a, n) == \A i \in 0..(n - 1) : MemAt(chip[d].mem, (a + i) % Capacity) = 255

\* the previous call has returned: what it wrote is on the chip
Written ==
    IF call.op = "writeDataSync" /\ call.fresh
    THEN [d |-> call.d, a |-> call.a, data |-> call.data]
    ELSE IF call.op \in Mutators THEN NoWrite
    ELSE written

\* the caller enters public function c.op, whose body is `body`, with buffer b
StartCall(c, body, b) ==
    /\ Idle
    /\ nCalls < MaxCalls
    /\ c.d \in begun
    /\ call' = [c EXCEPT !.pre = Pre]
    /\ nCalls' = nCalls + 1
    /\ written' = Written
    /\ todo' = body
    /\ buf' = b
    /\ log' = <<>>
    /\ subs' = <<>>
    /\ rxBuf' = <<>>
    /\ ret' = NoRet
    /\ UNCHANGED <<sharedBus, spi, begun, cs, chip, isr, busy, slot, dma, fired>>

CallBegin(d) ==
    /\ Idle
    /\ d \notin begun
    /\ call' = Call("begin", d, 0, 0, <<>>)
    /\ written' = Written
    /\ todo' = begin(d)
    /\ buf' = <<>>
    /\ log' = <<>>
    /\ subs' = <<>>
    /\ rxBuf' = <<>>
    /\ ret' = NoRet
    /\ UNCHANGED <<sharedBus, spi, begun, cs, chip, isr, nCalls, busy, slot, dma, ops, fired>>

\* setInstWithAddr(inst, addr, buf) on its own: the header is left in buf
CallSetInstWithAddr(inst, addr) ==
    /\ Idle
    /\ nCalls < MaxCalls
    /\ call' = Call("setInstWithAddr", NULL, addr, inst, <<>>)
    /\ nCalls' = nCalls + 1
    /\ buf' = setInstWithAddr(inst, addr)
    /\ log' = <<>>
    /\ subs' = <<>>
    /\ rxBuf' = <<>>
    /\ ret' = NoRet
    /\ UNCHANGED <<sharedBus, spi, begun, cs, chip, todo, isr, written, busy, slot, dma, ops,
                   fired>>

CallIsValidChip(d) ==
    StartCall(Call("isValidChip", d, 0, 0, <<>>), isValidChip(d), <<>>) /\ ops' = ops

CallJedecIdRead(d) ==
    StartCall(Call("jedecIdRead", d, 0, 0, <<>>), jedecIdRead(d), <<>>) /\ ops' = ops

CallReadStatus(d) ==
    StartCall(Call("readStatus", d, 0, 0, <<>>), readStatus(d), <<>>) /\ ops' = ops

CallIsWriteInProgress(d) ==
    StartCall(Call("isWriteInProgress", d, 0, 0, <<>>), isWriteInProgress(d), <<>>)
    /\ ops' = ops

CallWaitForWriteComplete(d) ==
    StartCall(Call("waitForWriteComplete", d, 0, 0, <<>>), waitForWriteComplete(d), <<>>)
    /\ ops' = ops

CallWriteStatus(d, status) ==
    StartCall(Call("writeStatus", d, 0, status, <<>>), writeStatus(d, status), <<>>)
    /\ ops' = ops

CallReadDataSync(d, addr, bufLen) ==
    StartCall(Call("readDataSync", d, addr, bufLen, <<>>),
              readDataSync(d, addr, 0, bufLen), Fill(bufLen, Unset))
    /\ ops' = ops

CallReadPageSync(d, addr, bufLen) ==
    StartCall(Call("readPageSync", d, addr, bufLen, <<>>),
              readPageSync(d, addr, 0, bufLen), Fill(bufLen, Unset))
    /\ ops' = ops

CallWriteDataSync(d, addr, data) ==
    StartCall([Call("writeDataSync", d, addr, Len(data), data)
                 EXCEPT !.fresh = Erased(d, addr, Len(data))],
              writeDataSync(d, addr, data, 0, Len(data)), data)
    /\ ops' = ops

CallWritePageSync(d, addr, data) ==
    StartCall(Call("writePageSync", d, addr, Len(data), data),
              writePageSync(d, addr, data, 0, Len(data)), data)
    /\ ops' = ops

CallSectorErase(d, addr) ==
    StartCall(Call("sectorErase", d, addr, 0, <<>>), sectorErase(d, addr), <<>>)
    /\ ops' = ops

CallBlockErase(d, addr) ==
    StartCall(Call("blockErase", d, addr, 0, <<>>), blockErase(d, addr), <<>>)
    /\ ops' = ops

CallChipErase(d) ==
    StartCall(Call("chipErase", d, 0, 0, <<>>), chipErase(d), <<>>) /\ ops' = ops

CallReadPageAsync(d, addr, bufLen, cb) ==
    /\ Len(ops) < MaxAsync
    /\ StartCall([Call("readPageAsync", d, addr, bufLen, <<>>) EXCEPT !.p = Len(ops) + 1],
                 readPageAsync(d, addr, 0, bufLen, cb, Len(ops) + 1), Fill(bufLen, Unset))
    /\ ops' = Append(ops, NewOp(d, cb))

CallWritePageAsync(d, addr, data, cb) ==
    /\ Len(ops) < MaxAsync
    /\ StartCall([Call("writePageAsync", d, addr, Len(data), data) EXCEPT !.p = Len(ops) + 1],
                 writePageAsync(d, addr, data, 0, Len(data), cb, Len(ops) + 1), data)
    /\ ops' = Append(ops, NewOp(d, cb))

----------------------------------------------------------------------------
(* Specifications *)

\* the caller's data: n bytes, none of them the erased value
Pattern(seed, n) == [i \in 1..n |-> (seed + i) % 251]

\* the state after construction: sharedBus among `shared`, chips answering with
\* ids among `ids`, the instances constructed on the buses `buses` gives them
InitOn(shared, ids, buses) ==
    /\ sharedBus \in shared
    /\ spi \in buses
    /\ begun = {}
    /\ cs = [d \in Dev |-> HIGH]
    /\ chip \in [Dev -> {NewChip(id) : id \in ids}]
    /\ todo = <<>>
    /\ isr = <<>>
    /\ call = NoCall
    /\ nCalls = 0
    /\ written = NoWrite
    /\ rxBuf = <<>>
    /\ buf = <<>>
    /\ ret = NoRet
    /\ log = <<>>
    /\ subs = <<>>
    /\ busy = [d \in Dev |-> 0]
    /\ slot = [dev |-> NULL, cb |-> NULL, p |-> NULL]
    /\ dma = <<>>
    /\ ops = <<>>
    /\ fired = <<>>

\* both instances constructed on SPI
InitWith(shared, ids) == InitOn(shared, ids, {[d \in Dev |-> SPI]})

\* the state after construction, with the target chip behind every chip-select;
\* sharedBus is fixed when the class is built: false as shipped, true for a bus
\* shared with other peripherals
Init == InitWith(BOOLEAN, {ValidId})

\* the steps synchronous calls are made of
SyncSteps ==
    \/ StepDigitalWrite
    \/ StepTransfer
    \/ StepDelay
    \/ StepSpiBegin
    \/ StepSetSpiSettings
    \/ StepOutId
    \/ StepRetValid
    \/ StepRetStatus
    \/ StepRetWip
    \/ StepWhile
    \/ StepEnter
    \/ ChipFinish

StatusArgs == {STATUS_SRWD}
PageArgs == {<<250, 10>>}
DataArgs == {<<250, 260>>}
EraseArgs == {300}
\* a user callback, or none
CallbackArgs == {NULL, 1}

SyncCalls ==
    \E d \in Dev :
        \/ CallBegin(d)
        \/ CallIsValidChip(d)
        \/ CallJedecIdRead(d)
        \/ CallReadStatus(d)
        \/ CallIsWriteInProgress(d)
        \/ CallWaitForWriteComplete(d)
        \/ \E v \in StatusArgs : CallWriteStatus(d, v)
        \/ \E a \in PageArgs : CallReadPageSync(d, a[1], a[2])
        \/ \E a \in DataArgs : CallReadDataSync(d, a[1], a[2])
        \/ \E a \in PageArgs : CallWritePageSync(d, a[1], Pattern(1, a[2]))
        \/ \E a \in DataArgs : CallWriteDataSync(d, a[1], Pattern(7, a[2]))
        \/ \E a \in EraseArgs : CallSectorErase(d, a)
        \/ \E a \in EraseArgs : CallBlockErase(d, a)
        \/ CallChipErase(d)

NextSync == SyncCalls \/ SyncSteps

\* any sequence of synchronous public calls
SpecSync == Init /\ [][NextSync]_vars

\* the steps only asynchronous operations are made of
AsyncSteps ==
    \/ StepSetSlot
    \/ StepTransferAsync
    \/ DmaComplete
    \/ StepEndSlot
    \/ StepClearSpiFlash
    \/ StepNoCallback
    \/ StepCallbackReturns
    \/ \E d \in Dev, a \in PageArgs, cb \in CallbackArgs : StepCallbackChains(d, a[1], a[2], cb)
    \/ StepClearCallback

AsyncCalls ==
    \E d \in Dev, a \in PageArgs, cb \in CallbackArgs :
        \/ CallReadPageAsync(d, a[1], a[2], cb)
        \/ CallWritePageAsync(d, a[1], Pattern(1, a[2]), cb)

\* the synchronous calls a caller typically makes around asynchronous ones
PollCalls ==
    \E d \in Dev :
        \/ CallBegin(d)
        \/ CallReadStatus(d)
        \/ CallWaitForWriteComplete(d)

\* the steps those calls are made of
PollSteps ==
    \/ StepDigitalWrite
    \/ StepTransfer
    \/ StepDelay
    \/ StepSpiBegin
    \/ StepSetSpiSettings
    \/ StepRetStatus
    \/ StepRetWip
    \/ StepWhile
    \/ ChipFinish

Next == PollCalls \/ AsyncCalls \/ PollSteps \/ AsyncSteps

\* any sequence of asynchronous calls and status polls, with the completion
\* interrupt arriving whenever a transfer in flight ends
InitAsync == InitWith({FALSE}, {ValidId})

Spec == InitAsync /\ [][Next]_vars

\* no asynchronous operation is waiting for its completion
NonePending == \A i \in 1..Len(ops) : ops[i].done

NextOrdered == PollCalls \/ (NonePending /\ AsyncCalls) \/ PollSteps \/ AsyncSteps

\* the same, for a caller that issues an asynchronous operation only when the
\* previous one has completed (from the main thread or from its callback)
SpecOrdered == InitAsync /\ [][NextOrdered]_vars

\* multi-page reads and writes over ranges that start and end anywhere in a page
RangeArgs ==
    {<<0, 0>>, <<250, 6>>, <<250, 10>>, <<255, 1>>, <<255, 2>>, <<0, 256>>, <<1, 256>>,
     <<250, 520>>, <<256, 512>>, <<Capacity - 260, 260>>}

DataSteps ==
    \/ StepDigitalWrite
    \/ StepTransfer
    \/ StepDelay
    \/ StepSpiBegin
    \/ StepSetSpiSettings
    \/ StepRetStatus
    \/ StepRetWip
    \/ StepWhile
    \/ StepEnter
    \/ ChipFinish

DataCalls ==
    \/ CallBegin(1)
    \/ \E a \in RangeArgs : CallReadDataSync(1, a[1], a[2])
    \/ \E a \in RangeArgs : CallWriteDataSync(1, a[1], Pattern(7, a[2]))

NextData == DataCalls \/ DataSteps

InitData == InitWith({FALSE}, {ValidId})

\* sequences of readDataSync and writeDataSync on one device
SpecData == InitData /\ [][NextData]_vars

\* opcodes and addresses for the command header: every byte boundary of the
\* address, 0x123456, and addresses with bits above bit 23 set
FrameInsts == {READ, PAGE_PROG, SECTOR_ER, BLOCK_ER, 0, 255}
FrameAddrs ==
    {0, 1, 255, 256, 65535, 65536, 1193046, 16777215, 16777216, 16777216 + 1193046,
     2130706432 + 1193046, 2147483647}

NextFrame == \E inst \in FrameInsts, addr \in FrameAddrs : CallSetInstWithAddr(inst, addr)

\* the command header computed for any opcode and address
SpecFrame == InitData /\ [][NextFrame]_vars

\* the target chip, chips whose id differs from it in one byte, and blank answers
IdSet ==
    {ValidId, <<MANUFACTURER_ID - 1, DEVICE_ID1, DEVICE_ID2>>,
     <<MANUFACTURER_ID, DEVICE_ID1 + 1, DEVICE_ID2>>,
     <<MANUFACTURER_ID, DEVICE_ID1, DEVICE_ID2 + 1>>, <<0, 0, 0>>, <<255, 255, 255>>}

IdSteps ==
    \/ StepDigitalWrite
    \/ StepTransfer
    \/ StepDelay
    \/ StepSpiBegin
    \/ StepSetSpiSettings
    \/ StepOutId
    \/ StepRetValid

IdCalls == \E d \in Dev : CallBegin(d) \/ CallIsValidChip(d) \/ CallJedecIdRead(d)

NextId == IdCalls \/ IdSteps

InitId == InitWith(BOOLEAN, IdSet)

\* identification of whatever chip answers behind each chip-select
SpecId == InitId /\ [][NextId]_vars

\* the statements the main thread and the interrupt handler execute for a
\* wait and for an asynchronous page write without callback
WaitProgram ==
    \/ StepDigitalWrite
    \/ StepTransfer
    \/ StepDelay
    \/ StepSpiBegin
    \/ StepSetSpiSettings
    \/ StepRetStatus
    \/ StepRetWip
    \/ StepWhile
    \/ StepSetSlot
    \/ StepTransferAsync
    \/ StepEndSlot
    \/ StepClearSpiFlash
    \/ StepNoCallback

WaitCalls ==
    \E d \in Dev :
        \/ CallBegin(d)
        \/ CallWaitForWriteComplete(d)
        \/ NonePending /\ \E a \in PageArgs : CallWritePageAsync(d, a[1], Pattern(1, a[2]), NULL)

NextWait == WaitCalls \/ WaitProgram \/ DmaComplete \/ ChipFinish

\* waits around asynchronous page writes, which return while the chip is still
\* programming: the processor keeps executing, a transfer in flight ends, and
\* the chip ends its program cycle
SpecWait ==
    /\ InitAsync
    /\ [][NextWait]_vars
    /\ WF_vars(WaitProgram)
    /\ WF_vars(DmaComplete)
    /\ WF_vars(ChipFinish)

\* the first instance constructed on SPI, the second on SPI1, each chip wired
\* to the bus of its instance
InitBus == InitOn(BOOLEAN, {ValidId}, {[d \in Dev |-> IF d = 1 THEN SPI ELSE SPI1]})

\* identification of the chips by one instance per bus
SpecBus == InitBus /\ [][NextId]_vars

\* every synchronous call, and the asynchronous ones, on the first instance
MixedCalls ==
    \/ CallBegin(1)
    \/ CallIsValidChip(1)
    \/ CallJedecIdRead(1)
    \/ CallReadStatus(1)
    \/ CallIsWriteInProgress(1)
    \/ CallWaitForWriteComplete(1)
    \/ \E v \in StatusArgs : CallWriteStatus(1, v)
    \/ \E a \in PageArgs : CallReadPageSync(1, a[1], a[2])
    \/ \E a \in DataArgs : CallReadDataSync(1, a[1], a[2])
    \/ \E a \in PageArgs : CallWritePageSync(1, a[1], Pattern(1, a[2]))
    \/ \E a \in DataArgs : CallWriteDataSync(1, a[1], Pattern(7, a[2]))
    \/ \E a \in EraseArgs : CallSectorErase(1, a)
    \/ \E a \in EraseArgs : CallBlockErase(1, a)
    \/ CallChipErase(1)
    \/ \E a \in PageArgs, cb \in CallbackArgs : CallReadPageAsync(1, a[1], a[2], cb)
    \/ \E a \in PageArgs, cb \in CallbackArgs :
           CallWritePageAsync(1, a[1], Pattern(1, a[2]), cb)

\* the statements of the asynchronous path, with user callbacks that only return
MixedAsyncSteps ==
    \/ StepSetSlot
    \/ StepTransferAsync
    \/ DmaComplete
    \/ StepEndSlot
    \/ StepClearSpiFlash
    \/ StepNoCallback
    \/ StepCallbackReturns
    \/ StepClearCallback

NextMixed == MixedCalls \/ SyncSteps \/ MixedAsyncSteps

\* synchronous calls made while asynchronous operations are pending or done
SpecMixed == InitAsync /\ [][NextMixed]_vars

----------------------------------------------------------------------------
(* Claims *)

Returned == todo = <<>> /\ isr = <<>> /\ call.op # "none"

\* number of 256-byte pages the range [a, a+n) touches
PagesTouched(a, n) ==
    IF n = 0 THEN 0 ELSE ((a + n - 1) \div PAGE_SIZE) - (a \div PAGE_SIZE) + 1

\* the sub-operations entered so far start at a, follow one another without gap,
\* carry buffer byte i to address a+i, and each stays inside one page
SubsChain(a, ss) ==
    \A i \in 1..Len(ss) :
        /\ ss[i][2] = (IF i = 1 THEN 0 ELSE ss[i - 1][2] + ss[i - 1][3])
        /\ ss[i][1] = a + ss[i][2]
        /\ ss[i][3] >= 1 /\ ss[i][3] <= PAGE_SIZE
        /\ (ss[i][1] \div PAGE_SIZE) = ((ss[i][1] + ss[i][3] - 1) \div PAGE_SIZE)

\* the data transfers of the log: <<header, payload length, payload>>
RECURSIVE Frames(_)
Frames(l) ==
    IF Len(l) < 2 THEN <<>>
    ELSE IF l[1].e = "transfer" /\ l[1].n = 4 /\ l[1].v[1] \in {READ, PAGE_PROG}
              /\ l[2].e = "transfer"
         THEN <<<<l[1].v, l[2].n, l[2].v>>>> \o Frames(Tail(Tail(l)))
         ELSE Frames(Tail(l))

\* C1: readDataSync(a, buf, n) and writeDataSync(a, buf, n) issue single-page
\* sub-operations that are contiguous and ascending from a, map buffer byte i to
\* address a+i, are 1..256 bytes long each, never cross a page boundary, cover
\* exactly [a, a+n) and are as many as the pages the range touches; each is one
\* read / page-program frame on the bus, and n = 0 causes no bus activity.
C1_PageSplit ==
    call.op \in {"readDataSync", "writeDataSync"} =>
        /\ SubsChain(call.a, subs)
        /\ Returned =>
              /\ Len(subs) = PagesTouched(call.a, call.n)
              /\ call.n = (IF subs = <<>> THEN 0
                           ELSE subs[Len(subs)][2] + subs[Len(subs)][3])
              /\ call.n = 0 => log = <<>>
              /\ Len(Frames(log)) = Len(subs)
              /\ \A i \in 1..Len(subs) :
                    /\ Frames(log)[i][1] =
                          setInstWithAddr(IF call.op = "readDataSync" THEN READ
                                          ELSE PAGE_PROG, subs[i][1])
                    /\ Frames(log)[i][2] = subs[i][3]
                    /\ call.op = "writeDataSync" =>
                          Frames(log)[i][3] =
                              SubSeq(call.data, subs[i][2] + 1, subs[i][2] + subs[i][3])

\* a multi-page call that starts inside a page has returned
C1_Witness ==
    /\ Returned
    /\ call.op \in {"readDataSync", "writeDataSync"}
    /\ call.a % PAGE_SIZE # 0
    /\ Len(subs) >= 3

\* C2: bytes written with writeDataSync into an erased range and read back with
\* readDataSync over the same range come back unchanged, also across pages.
C2_RoundTrip ==
    (/\ Returned
     /\ call.op = "readDataSync"
     /\ written.d = call.d
     /\ written.a = call.a
     /\ Len(written.data) = call.n) => buf = written.data

\* a range crossing page boundaries was written and read back
C2_Witness ==
    /\ Returned
    /\ call.op = "readDataSync"
    /\ written.d = call.d
    /\ written.a = call.a
    /\ Len(written.data) = call.n
    /\ PagesTouched(call.a, call.n) >= 2

\* asynchronous operation i's triple is what the three statics hold
Recorded(i) == slot = [dev |-> ops[i].d, cb |-> ops[i].cb, p |-> i]

\* how many times the callback of asynchronous operation i has been invoked
Invocations(i) == Cardinality({k \in 1..Len(fired) : fired[k].p = i})

\* C3: an asynchronous operation issued while another is pending is rejected or
\* queued: the (device, callback, context) triple recorded for an operation is
\* not overwritten before that operation's completion has fired.
C3_NoOverwrite ==
    [][\A i \in 1..Len(ops) : (Recorded(i) /\ ~ops[i].done) => Recorded(i)']_vars

\* C4: for an asynchronous operation issued while no other is pending, the
\* completion drives the issuing device's chip-select inactive before it invokes
\* the recorded callback, with the recorded context, exactly once: never while
\* that chip-select is active, never a second time, and once the completion
\* handler has returned the callback has been invoked.
C4_CompletionOrder ==
    \A i \in 1..Len(ops) :
        ops[i].clean =>
            /\ \A k \in 1..Len(fired) :
                  fired[k].p = i => (fired[k].cb = ops[i].cb /\ ops[i].d \notin fired[k].lo)
            /\ Invocations(i) <= 1
            /\ (ops[i].done /\ isr = <<>> /\ ops[i].cb # NULL) => Invocations(i) = 1

\* one chip-select bracket of the log, summed up: the opcode sent first, whether a
\* status poll was answered busy, the first transfer, the second, their number
Frame(b) ==
    IF b = <<>>
    THEN [op |-> Uninit, busy |-> FALSE, hdr |-> <<>>, data |-> <<>>, nx |-> 0]
    ELSE [op |-> b[1].v[1],
          busy |-> (b[1].v[1] = RDSR /\ BitAnd(b[1].r[1], STATUS_WIP) # 0),
          hdr |-> b[1].v,
          data |-> IF Len(b) >= 2 THEN b[2].v ELSE <<>>,
          nx |-> Len(b)]

RECURSIVE FramesFrom(_, _)
FramesFrom(l, cur) ==
    IF l = <<>> THEN <<>>
    ELSE LET e == Head(l)
         IN  IF e.e = "cs" /\ e.v = <<LOW>> THEN FramesFrom(Tail(l), <<>>)
             ELSE IF e.e = "transfer" THEN FramesFrom(Tail(l), Append(cur, e))
             ELSE IF e.e = "cs" /\ e.v = <<HIGH>>
                  THEN <<Frame(cur)>> \o FramesFrom(Tail(l), <<>>)
             ELSE FramesFrom(Tail(l), cur)

\* the command frames the current call has completed on the bus, in order
Cmds == FramesFrom(log, <<>>)

RECURSIVE Bracketed(_, _, _, _)
\* the log l continues correctly from a state where chip-select `open` (NULL: none)
\* is held, cnt transfers were made under it, the first with opcode `first`
Bracketed(l, open, cnt, first) ==
    IF l = <<>> THEN TRUE
    ELSE LET e == Head(l)
         IN  IF e.e = "cs" /\ e.v = <<LOW>>
             THEN open = NULL /\ e.n = HIGH /\ Bracketed(Tail(l), e.d, 0, Uninit)
             ELSE IF e.e = "cs"
             THEN open = e.d /\ e.n = LOW /\ cnt >= 1 /\ Bracketed(Tail(l), NULL, 0, Uninit)
             ELSE IF e.e = "transfer"
             THEN /\ open = e.d
                  /\ e.lo = {e.d}
                  /\ cnt = 0 \/ (cnt = 1 /\ first \in {READ, PAGE_PROG})
                  /\ Bracketed(Tail(l), open, cnt + 1, IF cnt = 0 THEN e.v[1] ELSE first)
             ELSE Bracketed(Tail(l), open, cnt, first)

\* C5: in any sequence of synchronous calls every transfer happens under the
\* caller's own chip-select, chip-select is never driven active while active,
\* each command is one acquire / release bracket, and chip-select is inactive
\* whenever a public call has returned.
C5_Bracketing ==
    /\ Bracketed(log, NULL, 0, Uninit)
    /\ Idle => \A d \in Dev : cs[d] = HIGH

\* a second call has gone through several brackets and returned
C5_Witness ==
    /\ ~sharedBus
    /\ Returned
    /\ nCalls = 2
    /\ call.op = "writePageSync"
    /\ Len(Cmds) >= 4

\* the frames with the busy status polls left out
NotBusy(f) == ~f.busy

\* every busy poll is followed by another poll
PolledOn(c) == \A i \in 1..Len(c) : c[i].busy => (i < Len(c) /\ c[i + 1].op = RDSR)

\* a status poll that was answered not busy
IsReady(f) == f.op = RDSR /\ ~f.busy /\ f.nx = 1

\* write-enable alone in its bracket
IsWren(f) == f.hdr = <<WREN>> /\ f.nx = 1

\* C6: writePageSync polls until write-in-progress is clear, sends write-enable in
\* its own bracket, then in one bracket the page-program header and the payload,
\* then polls until write-in-progress is clear; write-in-progress is clear when
\* writePageSync, and so writeDataSync, returns.
C6_WriteOrder ==
    /\ (Returned /\ call.op = "writePageSync") =>
          LET c == SelectSeq(Cmds, NotBusy)
          IN  /\ PolledOn(Cmds)
              /\ Len(c) = 4
              /\ IsReady(c[1])
              /\ IsWren(c[2])
              /\ c[3].hdr = setInstWithAddr(PAGE_PROG, call.a)
              /\ c[3].data = call.data
              /\ c[3].nx = 2
              /\ IsReady(c[4])
    /\ (Returned /\ call.op \in {"writePageSync", "writeDataSync"}) => ~chip[call.d].wip

\* a page write returned after the chip had answered a poll busy
C6_Witness ==
    /\ ~sharedBus
    /\ Returned
    /\ call.op = "writePageSync"
    /\ \E i \in 1..Len(Cmds) : Cmds[i].busy
    /\ chip[call.d].mem # <<>>

\* C7: page-program, sector-erase, block-erase, chip-erase and write-status are
\* each immediately preceded by a write-enable in its own bracket.
C7_WrenFirst ==
    \A i \in 1..Len(Cmds) :
        Cmds[i].op \in {PAGE_PROG, SECTOR_ER, BLOCK_ER, CHIP_ER, WRSR} =>
            (i > 1 /\ IsWren(Cmds[i - 1]))

\* C8: sectorErase, blockErase and chipErase poll until write-in-progress is
\* clear, send write-enable, send the erase opcode (with the 24-bit address, or
\* alone for chip erase) in one bracket, and poll until write-in-progress is
\* clear; the chip is not busy when they return.
C8_EraseOrder ==
    (Returned /\ call.op \in {"sectorErase", "blockErase", "chipErase"}) =>
        LET c == SelectSeq(Cmds, NotBusy)
        IN  /\ PolledOn(Cmds)
            /\ Len(c) = 4
            /\ IsReady(c[1])
            /\ IsWren(c[2])
            /\ c[3].hdr = (IF call.op = "sectorErase" THEN setInstWithAddr(SECTOR_ER, call.a)
                           ELSE IF call.op = "blockErase" THEN setInstWithAddr(BLOCK_ER, call.a)
                           ELSE <<CHIP_ER>>)
            /\ c[3].nx = 1
            /\ IsReady(c[4])
            /\ ~chip[call.d].wip

\* an erase returned after the chip had answered a poll busy, the array erased
C8_Witness ==
    /\ ~sharedBus
    /\ Returned
    /\ call.op \in {"sectorErase", "blockErase", "chipErase"}
    /\ \E i \in 1..Len(Cmds) : Cmds[i].busy
    /\ nCalls = 2
    /\ chip[call.d].mem = <<>>

\* C9: for every opcode O and address A the header is O followed by the low 24
\* bits of A, most significant byte first; for A = 0x123456 it is
\* [O, 0x12, 0x34, 0x56]; bits of A above bit 23 do not show in it.
C9_Framing ==
    call.op = "setInstWithAddr" =>
        /\ Len(buf) = 4
        /\ \A i \in 1..4 : buf[i] \in 0..255
        /\ buf[1] = call.n
        /\ buf[2] * 65536 + buf[3] * 256 + buf[4] = call.a % 16777216
        /\ call.a % 16777216 = 1193046 => buf = <<call.n, 18, 52, 86>>

\* the header of an address that is 0x123456 with higher bits set
C9_Witness ==
    /\ call.op = "setInstWithAddr"
    /\ call.a > 16777216
    /\ call.n = PAGE_PROG
    /\ buf = <<PAGE_PROG, 18, 52, 86>>

\* the identification transfers of this call, with the bytes the chip answered
IdResponse == SelectSeq(log, LAMBDA e : e.e = "transfer" /\ e.v[1] = RDID)

\* C10: isValidChip returns true exactly when the three bytes that follow the
\* discarded first byte of the answer to 0x9F are 0x9D, 0x13, 0x44, false when
\* any of them differs; it returns a boolean and leaves chip-select inactive.
C10_ValidChip ==
    (Returned /\ call.op = "isValidChip") =>
        /\ Len(IdResponse) = 1
        /\ ret.flag \in BOOLEAN
        /\ ret.flag <=> (IdResponse[1].r = <<157, 19, 68>>)
        /\ ret.flag <=> (chip[call.d].id = <<157, 19, 68>>)
        /\ cs[call.d] = HIGH

\* isValidChip returned false for a chip whose last id byte alone differs
C10_Witness ==
    /\ ~sharedBus
    /\ Returned
    /\ call.op = "isValidChip"
    /\ ~ret.flag
    /\ chip[call.d].id = <<157, 19, 69>>

\* C11: waitForWriteComplete called when write-in-progress is clear (and no
\* asynchronous transfer is in flight) makes one status poll and returns: it
\* does not sleep and leaves the chip, the chip-select pins and the statics as
\* it found them, however often it is repeated.
C11_WaitIdempotent ==
    (Returned /\ call.op = "waitForWriteComplete"
              /\ ~call.pre.chip[call.d].wip /\ ~call.pre.pending) =>
        /\ \A i \in 1..Len(log) : log[i].e \notin {"delay", "delayMicroseconds"}
        /\ Len(Cmds) = 1
        /\ IsReady(Cmds[1])
        /\ Persistent(chip[call.d]) = call.pre.chip[call.d]
        /\ cs = call.pre.cs
        /\ slot = call.pre.slot
        /\ dma = <<>>

\* a wait that returned at once on a chip that had finished a page program
C11_Witness ==
    /\ Returned
    /\ call.op = "waitForWriteComplete"
    /\ ~call.pre.chip[call.d].wip
    /\ ~call.pre.pending
    /\ chip[call.d].mem # <<>>
    /\ nCalls = 2

\* the address the k-th byte of a page program starting at a lands on
WrapPos(a, k) == (a - (a % PAGE_SIZE)) + (((a % PAGE_SIZE) + k - 1) % PAGE_SIZE)

\* C12: writePageSync sends one page-program command with the given address
\* and all len payload bytes, not split, cut or refused; on a chip that wraps
\* inside the page a write of 10 bytes at page offset 250 fills offsets
\* 250..255, then offsets 0..3 of the same page, and nothing in the next page.
C12_PagePassThrough ==
    (Returned /\ call.op = "writePageSync") =>
        LET pp == SelectSeq(Cmds, LAMBDA f : f.op = PAGE_PROG)
            was == call.pre.chip[call.d].mem
            now == chip[call.d].mem
            hit == {WrapPos(call.a, k) : k \in 1..call.n}
        IN  /\ Len(pp) = 1
            /\ pp[1].hdr = setInstWithAddr(PAGE_PROG, call.a)
            /\ pp[1].data = call.data
            /\ Len(pp[1].data) = call.n
            /\ \A k \in 1..call.n :
                   MemAt(now, WrapPos(call.a, k)) =
                       BitAnd(MemAt(was, WrapPos(call.a, k)), call.data[k])
            /\ \A t \in ((DOMAIN was) \cup (DOMAIN now)) \ hit : MemAt(now, t) = MemAt(was, t)
            /\ (call.a = 250 /\ call.n = 10) =>
                   /\ hit = (250..255) \cup (0..3)
                   /\ \A t \in 256..265 : MemAt(now, t) = MemAt(was, t)

\* 10 bytes written at offset 250 of an erased page: the 7th is at offset 0
C12_Witness ==
    /\ ~sharedBus
    /\ Returned
    /\ call.op = "writePageSync"
    /\ call.a = 250
    /\ call.n = 10
    /\ call.pre.chip[call.d].mem = <<>>
    /\ MemAt(chip[call.d].mem, 0) = call.data[7]
    /\ MemAt(chip[call.d].mem, 256) = 255

\* the status polls and sleeps of the current call, in order
PollsAndSleeps ==
    SelectSeq(log, LAMBDA e : e.e \in {"transfer", "delay", "delayMicroseconds"})

\* the answer to a status poll has write-in-progress set
AnsweredBusy(e) == BitAnd(e.r[1], STATUS_WIP) # 0

\* polls and sleeps alternate, every poll reads the status register anew, a sleep
\* follows a busy answer only, and the call returns on an answer that is not busy
WaitLoop ==
    call.op = "waitForWriteComplete" =>
        LET e == PollsAndSleeps
        IN  /\ \A i \in 1..Len(e) :
                  IF i % 2 = 1
                  THEN /\ e[i].e = "transfer"
                       /\ e[i].v[1] = RDSR
                       /\ e[i].n = 2
                       /\ i < Len(e) => AnsweredBusy(e[i])
                  ELSE /\ e[i].e = "delay"
                       /\ AnsweredBusy(e[i - 1])
            /\ Returned => (Len(e) % 2 = 1 /\ ~AnsweredBusy(e[Len(e)]))

\* C13: waitForWriteComplete reads the status register on every poll, sleeps
\* one delay(1) between two consecutive polls, returns only after a poll that
\* saw write-in-progress clear, and does return when the chip ends its cycle.
C13_WaitTerminates ==
    /\ []WaitLoop
    /\ (call.op = "waitForWriteComplete" /\ Running) ~> Returned

\* a wait that found the chip programming, slept once and returned
C13_Witness ==
    /\ Returned
    /\ call.op = "waitForWriteComplete"
    /\ call.pre.chip[call.d].wip
    /\ Len(PollsAndSleeps) = 3
    /\ ~chip[call.d].wip

\* C14: an asynchronous operation issued while none is pending, from the main
\* thread or from the completion callback of the one before, has its own
\* callback invoked exactly once, when its transfer has completed.
C14_OwnCallbackOnce ==
    \A i \in 1..Len(ops) :
        (ops[i].clean /\ ops[i].cb # NULL) =>
            /\ ~ops[i].done => Invocations(i) = 0
            /\ (ops[i].done /\ isr = <<>>) => Invocations(i) = 1

\* C15: at most one pending operation is recorded, and once the completion
\* handler has returned and no further asynchronous operation has been issued
\* the three statics are all NULL, also after an operation without callback.
C15_SlotEmptied ==
    /\ Cardinality({i \in 1..Len(ops) : Recorded(i) /\ ~ops[i].done}) <= 1
    /\ (ops # <<>> /\ NonePending /\ isr = <<>>) =>
           slot = [dev |-> NULL, cb |-> NULL, p |-> NULL]

\* how often the bus settings were applied during the current call
TimesConfigured == Len(SelectSeq(log, LAMBDA e : e.e = "setSpiSettings"))

\* log[i] is the release that ends a status poll answered busy
EndsBusyPoll(i) ==
    /\ i >= 2
    /\ log[i].e = "cs" /\ log[i].v = <<HIGH>>
    /\ log[i - 1].e = "transfer" /\ log[i - 1].v[1] = RDSR /\ AnsweredBusy(log[i - 1])

\* C16: with the bus dedicated the settings are applied once, in begin(), and
\* no acquire reconfigures or sleeps (the only delay(1) is the wait loop's, after
\* a busy poll); with the bus shared begin() does not configure and every
\* acquire applies the settings, then sleeps, then drives chip-select active.
C16_BusConfiguration ==
    /\ ~sharedBus =>
          /\ call.op = "begin" => TimesConfigured <= 1
          /\ (call.op = "begin" /\ Returned) =>
                 (TimesConfigured = 1 /\ log[Len(log)].e = "setSpiSettings")
          /\ call.op # "begin" => TimesConfigured = 0
          /\ \A i \in 1..Len(log) : log[i].e = "delay" => EndsBusyPoll(i - 1)
    /\ sharedBus =>
          /\ call.op = "begin" => TimesConfigured = 0
          /\ \A i \in 1..Len(log) :
                 (log[i].e = "cs" /\ log[i].v = <<LOW>>) =>
                     /\ i > 2
                     /\ log[i - 1].e = "delay" /\ log[i - 1].d = log[i].d
                     /\ log[i - 2].e = "setSpiSettings" /\ log[i - 2].d = log[i].d

\* a page write on the dedicated bus that slept in its wait loop only
C16_Witness ==
    /\ ~sharedBus
    /\ Returned
    /\ call.op = "writePageSync"
    /\ \E i \in 1..Len(log) : log[i].e = "delay"
    /\ Len(Cmds) >= 5

\* log[i] is a status poll
IsPollAt(i) == log[i].e = "transfer" /\ log[i].v[1] = RDSR

\* log[i] is the header of a page program
IsProgramAt(i) == log[i].e = "transfer" /\ log[i].v[1] = PAGE_PROG

\* C17: writePageAsync polls until write-in-progress is clear before it records
\* the operation and before it sends write-enable and the page program; it does
\* not poll after the payload, and chip-select stays active from the program
\* header until the completion notification.  (That the callback can fire while
\* the chip still reports write-in-progress is the state C17_Witness describes.)
C17_AsyncWrite ==
    call.op = "writePageAsync" =>
        /\ (\A i \in 1..Len(log) : IsPollAt(i) => AnsweredBusy(log[i])) =>
               /\ slot = call.pre.slot
               /\ \A i \in 1..Len(log) : log[i].e = "transfer" => IsPollAt(i)
        /\ \A i, j \in 1..Len(log) : (IsProgramAt(i) /\ i < j) => ~IsPollAt(j)
        /\ ((\E i \in 1..Len(log) : IsProgramAt(i)) /\ ~ops[call.p].done) =>
               cs[call.d] = LOW

\* the callback of an asynchronous page write has been invoked and the chip is
\* still programming
C17_Witness ==
    /\ call.op = "writePageAsync"
    /\ \E k \in 1..Len(fired) : fired[k].p = call.p
    /\ chip[call.d].wip
    /\ chip[call.d].mem # <<>>
    /\ ops[call.p].done
    /\ ~call.pre.chip[call.d].wip

\* C18: whatever an instance does on a bus - begin, the settings, every byte
\* transferred - it does on the bus object it was constructed with.
C18_OwnBus ==
    \A i \in 1..Len(log) : log[i].bus # NoBus => log[i].bus = spi[log[i].d]

SyncOps ==
    {"jedecIdRead", "isValidChip", "readStatus", "isWriteInProgress", "waitForWriteComplete",
     "writeStatus", "readPageSync", "readDataSync", "writePageSync", "writeDataSync",
     "sectorErase", "blockErase", "chipErase"}

\* C19: no statement of a synchronous operation changes _spiFlash, _callback or
\* _callbackParam or invokes a user callback: the statics change, and callbacks
\* are invoked, only in readPageAsync, writePageAsync and the completion handler.
C19_SyncFrame ==
    [][/\ (isr = <<>> /\ isr' = <<>> /\ call'.op \in SyncOps) =>
              (slot' = slot /\ fired' = fired)
       /\ (slot' # slot \/ fired' # fired) =>
              (isr # <<>> \/ call.op \in {"readPageAsync", "writePageAsync"})]_vars

\* a synchronous page read returned while an asynchronous operation was pending
\* and left its record as it was
C19_Witness ==
    /\ Returned
    /\ call.op = "readPageSync"
    /\ slot.dev # NULL
    /\ slot.cb # NULL
    /\ slot = call.pre.slot
    /\ dma # <<>>

====
